---- MODULE Spec2Model ----
(***************************************************************************)
(* Model of 15_min_accessibility_app.py: one Streamlit script that loads   *)
(* a zone collection, reads eight weight sliders, computes a min-max       *)
(* normalised, weight-averaged accessibility score per zone and renders    *)
(* it.  The arithmetic of the score is Python/NumPy float64 arithmetic     *)
(* (IEEE-754 binary64, round to nearest, ties to even); it is modelled     *)
(* bit-exactly on 53-bit mantissas held as four 14-bit limbs.              *)
(***************************************************************************)
EXTENDS Integers, Sequences, FiniteSets, TLC

(***************************************************************************)
(* Natural numbers of arbitrary size: little-endian sequences of limbs.    *)
(***************************************************************************)
LimbBits == 14
MantBits == 53
Base == 2^LimbBits
\* the bits of a mantissa's highest limb are below TopBit
TopBit == 2^(MantBits - 3 * LimbBits)

Max(a, b) == IF a >= b THEN a ELSE b
Min(a, b) == IF a <= b THEN a ELSE b

Limb(a, i) == IF i >= 1 /\ i <= Len(a) THEN a[i] ELSE 0

RECURSIVE Carry(_, _, _)
Carry(cols, i, c) ==
    IF i > Len(cols)
    THEN IF c = 0 THEN << >> ELSE << c % Base >> \o Carry(cols, i + 1, c \div Base)
    ELSE << (cols[i] + c) % Base >> \o Carry(cols, i + 1, (cols[i] + c) \div Base)

RECURSIVE Strip(_)
Strip(a) ==
    IF Len(a) > 0 /\ a[Len(a)] = 0 THEN Strip(SubSeq(a, 1, Len(a) - 1)) ELSE a

BAdd(a, b) == Carry([i \in 1..Max(Len(a), Len(b)) |-> Limb(a, i) + Limb(b, i)], 1, 0)

\* the product of two four-limb numbers, column by column
BMul(a, b) ==
    Carry(<< a[1] * b[1],
             a[1] * b[2] + a[2] * b[1],
             a[1] * b[3] + a[2] * b[2] + a[3] * b[1],
             a[1] * b[4] + a[2] * b[3] + a[3] * b[2] + a[4] * b[1],
             a[2] * b[4] + a[3] * b[3] + a[4] * b[2],
             a[3] * b[4] + a[4] * b[3],
             a[4] * b[4] >>, 1, 0)

\* a * 2^b for 0 < b < LimbBits, as n limbs
ShlBits(a, b, n) ==
    [i \in 1..n |-> (Limb(a, i) % 2^(LimbBits - b)) * 2^b
                      + Limb(a, i - 1) \div 2^(LimbBits - b)]

BShl(a, s) ==
    [i \in 1..(s \div LimbBits) |-> 0]
      \o (IF s % LimbBits = 0 THEN a ELSE ShlBits(a, s % LimbBits, Len(a) + 1))

BShrBits(a, d, b) ==
    IF Len(a) <= d THEN << >>
    ELSE [i \in 1..(Len(a) - d) |->
            (a[i + d] \div 2^b) + (Limb(a, i + d + 1) % 2^b) * 2^(LimbBits - b)]

BShr(a, s) == BShrBits(a, s \div LimbBits, s % LimbBits)

RECURSIVE Bits(_)
Bits(n) == IF n = 0 THEN 0 ELSE 1 + Bits(n \div 2)

BitLenOf(s) == IF Len(s) = 0 THEN 0 ELSE LimbBits * (Len(s) - 1) + Bits(s[Len(s)])
BitLen(a) == BitLenOf(Strip(a))

Bit(a, i) == (Limb(a, i \div LimbBits + 1) \div 2^(i % LimbBits)) % 2

LowNonZero(a, k) ==
    \/ \E i \in 1..(k \div LimbBits) : Limb(a, i) # 0
    \/ Limb(a, k \div LimbBits + 1) % 2^(k % LimbBits) # 0

RECURSIVE BCmpFrom(_, _, _)
\* -1, 0, 1 as a < b, a = b, a > b, comparing limbs i, i-1, ..., 1
BCmpFrom(a, b, i) ==
    IF i = 0 THEN 0
    ELSE IF Limb(a, i) < Limb(b, i) THEN -1
    ELSE IF Limb(a, i) > Limb(b, i) THEN 1
    ELSE BCmpFrom(a, b, i - 1)

BCmp(a, b) == BCmpFrom(a, b, Max(Len(a), Len(b)))

(***************************************************************************)
(* float64 values: zero, or m * 2^e with 2^52 <= m < 2^53 (four limbs),    *)
(* or the specials nan and inf.  Only non-negative values occur.  Python   *)
(* evaluates an operand once, before the operator is applied: an operand   *)
(* is bound to its value by CHOOSE r \in {Op(v) : v \in {operand}} : TRUE.  *)
(***************************************************************************)
Pad4(a) == [i \in 1..4 |-> Limb(a, i)]

Zero == [k |-> "num", m |-> <<0, 0, 0, 0>>, e |-> 0]
NaN  == [k |-> "nan", m |-> <<0, 0, 0, 0>>, e |-> 0]
Inf  == [k |-> "inf", m |-> <<0, 0, 0, 0>>, e |-> 0]

IsZero(x) == x = Zero

Inc4(q) ==
    IF q[1] < Base - 1 THEN [q EXCEPT ![1] = @ + 1]
    ELSE Pad4(Carry(<<q[1] + 1, q[2], q[3], q[4]>>, 1, 0))

\* the float64 of mantissa m (at most 2^53) and exponent e
Float(m, e) ==
    IF m[4] >= TopBit
    THEN [k |-> "num", m |-> Pad4(BShr(m, 1)), e |-> e + 1]
    ELSE [k |-> "num", m |-> m, e |-> e]

\* the 53-bit mantissa q, rounded up or not, with exponent e
Rounded(q, up, e) ==
    CHOOSE r \in {Float(m, e) : m \in {IF up THEN Inc4(q) ELSE q}} : TRUE

\* M of L > 53 bits and its highest 53 bits q: round to nearest, ties to even
RoundTo(M, e, L, q) ==
    Rounded(q, /\ Bit(M, L - MantBits - 1) = 1
               /\ \/ LowNonZero(M, L - MantBits - 1)
                  \/ q[1] % 2 = 1,
            e + L - MantBits)

\* M * 2^e rounded to the nearest float64, for M of L > 53 bits
RoundBits(M, e, L) ==
    CHOOSE r \in {RoundTo(M, e, L, q) : q \in {Pad4(BShr(M, L - MantBits))}} : TRUE

\* the exact value M * 2^e, M of L bits, as a float64
RoundExact(M, e, L) ==
    IF L = 0 THEN Zero
    ELSE IF L <= MantBits
    THEN [k |-> "num", m |-> Pad4(BShl(M, MantBits - L)), e |-> e - (MantBits - L)]
    ELSE RoundBits(M, e, L)

Round(M, e) == RoundExact(M, e, BitLen(M))

\* an int as float64 (exact for the sizes that occur)
FromInt(n) == Round(<<n % Base, n \div Base>>, 0)

\* long division by B, one limb of the quotient at a time: the remainder
\* followed by the quotient's limbs, lowest first
RECURSIVE DivDigits(_, _, _)
RECURSIVE DivStep(_, _, _)
DivDigits(r, B, i) == IF i = 0 THEN <<r>> ELSE DivStep(r * Base, B, i)
DivStep(t, B, i) == Append(DivDigits(t % B, B, i - 1), t \div B)

\* the digits d of a quotient in [1, 2) as a float64: ties to even
DivRound(d, B, e) ==
    Rounded(<<d[2], d[3], d[4], TopBit \div 2 + d[5]>>,
            2 * d[1] > B \/ (2 * d[1] = B /\ d[2] % 2 = 1),
            e)

\* A / B * 2^(e + 52) for B <= A < 2 * B
DivScaled(A, B, e) ==
    CHOOSE r \in {DivRound(d, B, e) : d \in {DivStep((A - B) * (TopBit \div 2), B, 4)}} : TRUE

\* a / b with a, b scaled to A, B of 14 bits each
DivBits(A, B, e) ==
    IF A >= B THEN DivScaled(A, B, e) ELSE DivScaled(2 * A, B, e - 1)

\* a / b for non-negative ints a, b, as Python's int / int and NumPy's
\* int64 / int64 compute it: the correctly rounded quotient
DivInts(a, b) ==
    IF b = 0 THEN (IF a = 0 THEN NaN ELSE Inf)
    ELSE IF a = 0 THEN Zero
    ELSE DivBits(a * 2^(LimbBits - Bits(a)), b * 2^(LimbBits - Bits(b)),
                 Bits(a) - Bits(b) - (MantBits - 1))

FDivInt(a, b) == CHOOSE r \in {DivInts(v, w) : v \in {a}, w \in {b}} : TRUE

\* the product P of two mantissas (105 or 106 bits) as a float64
MulRound(P, e) ==
    RoundBits(P, e, IF Limb(P, 8) >= 2^(2 * MantBits - 1 - 7 * LimbBits)
                    THEN 2 * MantBits ELSE 2 * MantBits - 1)

MulFloats(x, y) ==
    IF x.k = "nan" \/ y.k = "nan" THEN NaN
    ELSE IF x.k = "inf" \/ y.k = "inf"
    THEN (IF IsZero(x) \/ IsZero(y) THEN NaN ELSE Inf)
    ELSE IF IsZero(x) \/ IsZero(y) THEN Zero
    ELSE CHOOSE r \in {MulRound(P, x.e + y.e) : P \in {BMul(x.m, y.m)}} : TRUE

FMul(x, y) == CHOOSE r \in {MulFloats(v, w) : v \in {x}, w \in {y}} : TRUE

\* the limb sums t with their carries passed on, as five limbs
Carry5(t, c2, c3, c4) ==
    <<t[1] % Base, (t[2] + c2) % Base, (t[3] + c3) % Base, (t[4] + c4) % Base,
      (t[4] + c4) \div Base>>
Carry4(t, c2, c3) == Carry5(t, c2, c3, (t[3] + c3) \div Base)
Carry3(t, c2) == Carry4(t, c2, (t[2] + c2) \div Base)

\* a + b as five limbs, for a, b below 2^56
Add5(a, b) ==
    CHOOSE r \in {Carry3(t, t[1] \div Base) :
                     t \in {[i \in 1..4 |-> Limb(a, i) + Limb(b, i)]}} : TRUE

\* the sum M of two aligned mantissas (56 or 57 bits) as a float64
AddRound(M, e) ==
    RoundBits(M, e, IF M[5] >= 1 THEN MantBits + 4 ELSE MantBits + 3)

\* the bits shifted out of the smaller operand, kept as a sticky lowest bit
AddSticky(T, sticky, e) ==
    CHOOSE r \in {AddRound(M, e) :
                     M \in {IF sticky /\ T[1] % 2 = 0 THEN [T EXCEPT ![1] = @ + 1] ELSE T}} : TRUE

\* X + Y / 2^d, X and Y mantissas with three more bits
AddShifted(X, Y, d, e) ==
    CHOOSE r \in {AddSticky(T, sticky, e) :
                     T \in {Add5(X, BShr(Y, d))}, sticky \in {LowNonZero(Y, d)}} : TRUE

\* hi + lo for finite nonzero floats with hi.e >= lo.e
AddAligned(hi, lo) ==
    IF hi.e - lo.e > MantBits + 2 THEN hi
    ELSE CHOOSE r \in {AddShifted(X, Y, hi.e - lo.e, hi.e - 3) :
                          X \in {ShlBits(hi.m, 3, 4)}, Y \in {ShlBits(lo.m, 3, 4)}} : TRUE

AddFloats(x, y) ==
    IF x.k = "nan" \/ y.k = "nan" THEN NaN
    ELSE IF x.k = "inf" \/ y.k = "inf" THEN Inf
    ELSE IF IsZero(x) THEN y
    ELSE IF IsZero(y) THEN x
    ELSE IF x.e >= y.e THEN AddAligned(x, y) ELSE AddAligned(y, x)

FAdd(x, y) == CHOOSE r \in {AddFloats(v, w) : v \in {x}, w \in {y}} : TRUE

\* the exact sum of two finite floats as <<mantissa, exponent>>
ExactAdd(x, y) ==
    IF IsZero(x) THEN <<y.m, y.e>>
    ELSE IF IsZero(y) THEN <<x.m, x.e>>
    ELSE <<BAdd(BShl(x.m, x.e - Min(x.e, y.e)), BShl(y.m, y.e - Min(x.e, y.e))),
           Min(x.e, y.e)>>

\* x <= y on finite non-negative floats
FLeq(x, y) ==
    /\ x.k = "num" /\ y.k = "num"
    /\ \/ IsZero(x)
       \/ /\ ~IsZero(y)
          /\ \/ x.e < y.e
             \/ x.e = y.e /\ BCmp(x.m, y.m) <= 0

(***************************************************************************)
(* The script's data.                                                      *)
(***************************************************************************)
\* the scored metrics, in the order of used_weights and of the score formula
Used == <<"amenity", "bank", "food", "health", "shop", "sport", "transport">>
UsedSet == {Used[i] : i \in 1..Len(Used)}
Sliders == UsedSet \cup {"greenary"}

NormName == [amenity |-> "amenity_norm", bank |-> "bank_norm", food |-> "food_norm",
             health |-> "health_norm", shop |-> "shop_norm", sport |-> "sport_norm",
             transport |-> "transport_norm", greenary |-> "greenary_norm"]

ScoreCol == "accessibility_score"

\* the sliders' initial values
Defaults == [k \in Sliders |-> IF k = "greenary" THEN 0 ELSE 20]

(***************************************************************************)
(* Bounded inputs.  A zone is <<food, transport, every other metric>>; a   *)
(* weight set moves the food slider, the transport slider, the other five  *)
(* scored sliders together, and the greenery slider.                       *)
(***************************************************************************)
MaxZones == 3
ZoneKinds == {<<2, 1, 1>>, <<5, 1, 1>>, <<8, 1, 1>>, <<8, 3, 3>>}
Zone(kind) == [c \in Sliders |-> IF c = "food" THEN kind[1]
                                 ELSE IF c = "transport" THEN kind[2] ELSE kind[3]]
Zones == {Zone(kind) : kind \in ZoneKinds}

Missing == [ok |-> FALSE, zones |-> << >>]
Files == {Missing} \cup
         UNION {{[ok |-> TRUE, zones |-> zs] : zs \in [1..n -> Zones]} : n \in 0..MaxZones}

WeightSet(f, t, r, g) ==
    [k \in Sliders |-> IF k = "food" THEN f
                       ELSE IF k = "transport" THEN t
                       ELSE IF k = "greenary" THEN g ELSE r]
WeightSets == {Defaults} \cup
              {WeightSet(f, t, r, g) : f \in {0, 10, 100}, t \in {0, 20},
                                       r \in {0, 20}, g \in {0, 50}}

VARIABLES file, slider, pc, weights, gdf, page
vars == <<file, slider, pc, weights, gdf, page>>

NoFrame   == [rows |-> 0, cols |-> [c \in {} |-> << >>]]
NoWeights == [k \in {} |-> 0]
NoPage    == [msgs |-> {}, map |-> << >>]

(***************************************************************************)
(* Data loading.                                                           *)
(***************************************************************************)
Frame(f) == [rows |-> Len(f.zones),
             cols |-> [c \in Sliders |-> [z \in 1..Len(f.zones) |-> f.zones[z][c]]]]

LoadData ==
    /\ pc = "load"
    /\ IF ~file.ok
       THEN \* read_file raises: st.error, st.stop
            /\ page' = [page EXCEPT !.msgs = @ \cup {"load_error"}]
            /\ pc' = "stopped"
            /\ UNCHANGED gdf
       ELSE IF Len(file.zones) = 0
       THEN \* final_result['geometry'].iloc[0] raises IndexError, uncaught
            /\ pc' = "crashed"
            /\ UNCHANGED <<gdf, page>>
       ELSE /\ gdf' = Frame(file)
            /\ pc' = "sidebar"
            /\ UNCHANGED page
    /\ UNCHANGED <<file, slider, weights>>

(***************************************************************************)
(* Sidebar: the eight sliders are read.                                    *)
(***************************************************************************)
\* faulty variant of ReadSliders: the sliders' defaults, whatever their position
ReadDefaults(s) == Defaults

ReadSliders(s) == [k \in Sliders |-> s[k]]

Sidebar ==
    /\ pc = "sidebar"
    /\ weights' = ReadSliders(slider)
    /\ pc' = "score"
    /\ UNCHANGED <<file, slider, gdf, page>>

(***************************************************************************)
(* Calculation of the accessibility score.                                 *)
(***************************************************************************)
\* faulty variant of UsedWeights: the greenery weight is kept
UsedWeightsAll(w) == w

UsedWeights(w) == [k \in UsedSet |-> w[k]]

RECURSIVE SumOver(_, _)
SumOver(f, S) ==
    IF S = {} THEN 0
    ELSE LET k == CHOOSE x \in S : TRUE IN f[k] + SumOver(f, S \ {k})

TotalWeight(uw) == SumOver(uw, DOMAIN uw)

NormalizedWeights(uw) ==
    LET total_weight == TotalWeight(uw)
    IN  [k \in DOMAIN uw |-> FDivInt(uw[k], total_weight)]

RECURSIVE ColMinFrom(_, _)
ColMinFrom(col, i) ==
    IF i = Len(col) THEN col[i] ELSE Min(col[i], ColMinFrom(col, i + 1))
RECURSIVE ColMaxFrom(_, _)
ColMaxFrom(col, i) ==
    IF i = Len(col) THEN col[i] ELSE Max(col[i], ColMaxFrom(col, i + 1))
ColMin(col) == ColMinFrom(col, 1)
ColMax(col) == ColMaxFrom(col, 1)

\* faulty variants of NormColumn: no guard for a tied column; the minimum not
\* subtracted; divided by the maximum instead of the range
NormColumnNoGuard(col) ==
    [z \in 1..Len(col) |-> FDivInt(col[z] - ColMin(col), ColMax(col) - ColMin(col))]

NormColumnNoShift(col) ==
    IF Len(col) = 0 THEN << >>
    ELSE IF ColMax(col) = ColMin(col)
    THEN [z \in 1..Len(col) |-> Zero]
    ELSE [z \in 1..Len(col) |-> FDivInt(col[z], ColMax(col) - ColMin(col))]

NormColumnByMax(col) ==
    IF Len(col) = 0 THEN << >>
    ELSE IF ColMax(col) = ColMin(col)
    THEN [z \in 1..Len(col) |-> Zero]
    ELSE [z \in 1..Len(col) |-> FDivInt(col[z] - ColMin(col), ColMax(col))]

NormColumn(col) ==
    IF Len(col) = 0 THEN << >>
    ELSE LET col_min == ColMin(col)
             col_max == ColMax(col)
         IN  IF col_max = col_min
             THEN [z \in 1..Len(col) |-> Zero]
             ELSE [z \in 1..Len(col) |-> FDivInt(col[z] - col_min, col_max - col_min)]

SetColumns(g, new) ==
    [g EXCEPT !.cols = [c \in (DOMAIN g.cols) \cup (DOMAIN new) |->
                          IF c \in DOMAIN new THEN new[c] ELSE g.cols[c]]]

\* the loop over used_weights.keys()
Normalize(g, uw) ==
    SetColumns(g, [c \in {NormName[k] : k \in DOMAIN uw} |->
                     LET k == CHOOSE x \in DOMAIN uw : NormName[x] = c
                     IN  NormColumn(g.cols[k])])

RECURSIVE WeightedSumSwapped(_, _, _, _)
\* faulty variant of WeightedSum: food_norm and transport_norm take each other's weight
WeightedSumSwapped(g, nw, z, i) ==
    LET j    == IF i = 3 THEN 7 ELSE IF i = 7 THEN 3 ELSE i
        term == FMul(g.cols[NormName[Used[i]]][z], nw[Used[j]])
    IN  IF i = 1 THEN term ELSE FAdd(WeightedSumSwapped(g, nw, z, i - 1), term)

RECURSIVE WeightedSum(_, _, _, _)
\* norm[Used[1]] * nw[Used[1]] + ... + norm[Used[i]] * nw[Used[i]], left to right
WeightedSum(g, nw, z, i) ==
    LET term == FMul(g.cols[NormName[Used[i]]][z], nw[Used[i]])
    IN  IF i = 1 THEN term ELSE FAdd(WeightedSum(g, nw, z, i - 1), term)

\* faulty variant of ScoreOf: the sum is not scaled to 100
ScoreOfUnscaled(g, nw, z) == WeightedSum(g, nw, z, Len(Used))

ScoreOf(g, nw, z) == FMul(WeightedSum(g, nw, z, Len(Used)), FromInt(100))

Aggregate(g, nw) ==
    SetColumns(g, [c \in {ScoreCol} |-> [z \in 1..g.rows |-> ScoreOf(g, nw, z)]])

\* faulty variant of ZeroScores: no score column is set
ZeroScoresSkipped(g) == g

ZeroScores(g) == SetColumns(g, [c \in {ScoreCol} |-> [z \in 1..g.rows |-> Zero]])

\* the frame after the calculation section, for the frame g and the weights w
Scored(g, w) ==
    LET used_weights == UsedWeights(w)
    IN  IF TotalWeight(used_weights) = 0
        THEN ZeroScores(g)
        ELSE Aggregate(Normalize(g, used_weights), NormalizedWeights(used_weights))

Score ==
    /\ pc = "score"
    /\ gdf' = Scored(gdf, weights)
    /\ IF TotalWeight(UsedWeights(weights)) = 0
       THEN page' = [page EXCEPT !.msgs = @ \cup {"warning"}]
       ELSE UNCHANGED page
    /\ pc' = "map"
    /\ UNCHANGED <<file, slider, weights>>

(***************************************************************************)
(* Map visualization.                                                      *)
(***************************************************************************)
Empty(g) == g.rows = 0 \/ DOMAIN g.cols = {}

MapView ==
    /\ pc = "map"
    /\ IF Empty(gdf) \/ ScoreCol \notin DOMAIN gdf.cols
       THEN page' = [page EXCEPT !.msgs = @ \cup {"no_data"}]
       ELSE page' = [page EXCEPT !.map = gdf.cols[ScoreCol]]
    /\ pc' = "done"
    /\ UNCHANGED <<file, slider, weights, gdf>>

(***************************************************************************)
(* A slider is moved (or the page is rerun): Streamlit runs the script     *)
(* again from the top, with fresh script variables and a fresh page.       *)
(***************************************************************************)
Rerun(w) ==
    /\ slider' = w
    /\ pc' = "load"
    /\ weights' = NoWeights
    /\ gdf' = NoFrame
    /\ page' = NoPage
    /\ UNCHANGED file

Init ==
    /\ file \in Files
    /\ slider = Defaults
    /\ pc = "load"
    /\ weights = NoWeights
    /\ gdf = NoFrame
    /\ page = NoPage

Next ==
    \/ LoadData
    \/ Sidebar
    \/ Score
    \/ MapView
    \/ \E w \in WeightSets : Rerun(w)

Spec == Init /\ [][Next]_vars

(***************************************************************************)
(* Quantities the properties are stated in, read from the loaded           *)
(* collection and a weight set by the formulas of the specification.       *)
(***************************************************************************)
One     == FromInt(1)
Hundred == FromInt(100)

HasZones == file.ok /\ Len(file.zones) >= 1
NoZones  == file.ok /\ Len(file.zones) = 0
ZoneIds  == 1..Len(file.zones)
Computed == pc \in {"map", "done"}

Raw(m, z)  == file.zones[z][m]
ColVals(m) == {Raw(m, z) : z \in ZoneIds}
Least(m)    == CHOOSE v \in ColVals(m) : \A u \in ColVals(m) : v <= u
Greatest(m) == CHOOSE v \in ColVals(m) : \A u \in ColVals(m) : v >= u
Tied(m)     == Greatest(m) = Least(m)

SevenTotal(w) == w["amenity"] + w["bank"] + w["food"] + w["health"]
                 + w["shop"] + w["sport"] + w["transport"]

MinMax(m, z) ==
    IF Tied(m) THEN Zero ELSE FDivInt(Raw(m, z) - Least(m), Greatest(m) - Least(m))

\* the normalised metrics of every zone, and the weights over their total
NormTable    == [m \in UsedSet |-> [z \in ZoneIds |-> MinMax(m, z)]]
Fractions(w) == [m \in UsedSet |-> FDivInt(w[m], SevenTotal(w))]

Term(norm, frac, m, z) == FMul(norm[m][z], frac[m])

Formula(norm, frac, z) ==
    FMul(FAdd(FAdd(FAdd(FAdd(FAdd(FAdd(Term(norm, frac, "amenity", z),
                                       Term(norm, frac, "bank", z)),
                                  Term(norm, frac, "food", z)),
                             Term(norm, frac, "health", z)),
                        Term(norm, frac, "shop", z)),
                   Term(norm, frac, "sport", z)),
              Term(norm, frac, "transport", z)),
         Hundred)

\* the scores the formula gives the loaded collection under the weights w
Scores(w) ==
    CHOOSE s \in {[z \in ZoneIds |-> Formula(norm, frac, z)] :
                     norm \in {NormTable}, frac \in {Fractions(w)}} : TRUE

ScoreAt(z)   == gdf.cols[ScoreCol][z]
NormAt(m, z) == gdf.cols[NormName[m]][z]
NormCols     == {NormName[m] : m \in UsedSet}

InUnit(x) == FLeq(Zero, x) /\ FLeq(x, One)

\* p <= q for exact values <<mantissa, exponent>>
ExactLeq(p, q) ==
    LET e == Min(p[2], q[2])
    IN  BCmp(BShl(p[1], p[2] - e), BShl(q[1], q[2] - e)) <= 0

\* the example of the specification: two zones, food 2 and 8, all else equal
FoodExample ==
    /\ file.ok /\ Len(file.zones) = 2
    /\ Raw("food", 1) = 2 /\ Raw("food", 2) = 8
    /\ \A m \in UsedSet \ {"food"} : Raw(m, 1) = Raw(m, 2)

FoodOnly(w) == w["food"] = 100 /\ \A m \in UsedSet \ {"food"} : w[m] = 0

(***************************************************************************)
(* C1: with at least one zone and the seven used weights summing to more   *)
(* than 0, every zone's accessibility_score after the calculation lies in  *)
(* [0, 100].                                                               *)
(***************************************************************************)
C1_ScoreBounds ==
    (Computed /\ HasZones /\ SevenTotal(weights) > 0)
        => \A z \in ZoneIds : FLeq(Zero, ScoreAt(z)) /\ FLeq(ScoreAt(z), Hundred)

(***************************************************************************)
(* C2: when the seven used weights sum to 0 the calculation sets every     *)
(* zone's accessibility_score to 0.0, adds no normalised column, raises no *)
(* error, issues only the advisory warning and goes on to render the map.  *)
(***************************************************************************)
C2_ZeroWeightFallback ==
    /\ (Computed /\ SevenTotal(weights) = 0)
         => /\ HasZones
            /\ gdf.rows = Len(file.zones)
            /\ ScoreCol \in DOMAIN gdf.cols
            /\ \A z \in ZoneIds : ScoreAt(z) = Zero
            /\ NormCols \cap DOMAIN gdf.cols = {}
            /\ page.msgs = {"warning"}
            /\ pc = "done" => page.map = [z \in ZoneIds |-> Zero]
    /\ (pc = "score" /\ SevenTotal(weights) = 0) => ENABLED Score

C2_Witness ==
    /\ pc = "done" /\ SevenTotal(weights) = 0 /\ weights["greenary"] = 50
    /\ Len(file.zones) = 3 /\ ~Tied("food")
    /\ page.map = <<Zero, Zero, Zero>>

(***************************************************************************)
(* C3: with a nonzero weight total each zone's accessibility_score is      *)
(* 100 * sum over the seven used metrics of normalised * (weight / total), *)
(* the normalised value being (raw - colMin) / (colMax - colMin) over the  *)
(* whole collection and 0.0 for a tied column (float64 arithmetic, summed  *)
(* in the order of the formula); food 2 and 8 with all else equal and only *)
(* the food weight set score 0.0 and 100.0.                                *)
(***************************************************************************)
C3_ScoreFormula ==
    /\ (Computed /\ SevenTotal(weights) # 0)
         => /\ \A m \in UsedSet : gdf.cols[NormName[m]] = NormTable[m]
            /\ gdf.cols[ScoreCol] = Scores(weights)
    /\ (Computed /\ FoodExample /\ FoodOnly(weights))
         => gdf.cols[ScoreCol] = <<Zero, Hundred>>

C3_Witness ==
    /\ pc = "done" /\ FoodExample /\ FoodOnly(weights)
    /\ page.map = <<Zero, Hundred>>

(***************************************************************************)
(* C4 as stated: after any calculation, a zero weight total included,      *)
(* every zone has a normalised value in [0, 1] for each used metric.       *)
(***************************************************************************)
C4_NormalizedAlways ==
    (Computed /\ HasZones)
        => \A m \in UsedSet :
             /\ NormName[m] \in DOMAIN gdf.cols
             /\ \A z \in ZoneIds : InUnit(NormAt(m, z))

(***************************************************************************)
(* C4 amended: after a calculation with a nonzero weight total every zone  *)
(* has a normalised value in [0, 1] for each used metric; after one with a *)
(* zero weight total the collection carries no normalised value.           *)
(***************************************************************************)
C4_NormalizedWhenWeighted ==
    (Computed /\ HasZones)
        => IF SevenTotal(weights) # 0
           THEN \A m \in UsedSet :
                  /\ NormName[m] \in DOMAIN gdf.cols
                  /\ \A z \in ZoneIds : InUnit(NormAt(m, z))
           ELSE NormCols \cap DOMAIN gdf.cols = {}

C4_Witness ==
    /\ Computed /\ HasZones /\ SevenTotal(weights) # 0
    /\ \E z \in ZoneIds : NormAt("food", z) = FDivInt(1, 2)
    /\ \E z \in ZoneIds : NormAt("transport", z) = One

(***************************************************************************)
(* C5: an empty collection never reaches the calculation; the run reports  *)
(* "no data" instead.                                                      *)
(***************************************************************************)
C5_EmptyReportsNoData ==
    NoZones => /\ pc \notin {"score", "map"}
               /\ ~(ScoreCol \in DOMAIN gdf.cols)
               /\ pc \in {"crashed", "stopped", "done"} => "no_data" \in page.msgs

(***************************************************************************)
(* C6: after every weight-change event the values shown are those of one   *)
(* full calculation from the raw metrics and the latest weight set alone:  *)
(* nothing of an earlier run survives and the result is a function of the  *)
(* collection and the sliders' current values.                             *)
(***************************************************************************)
C6_LatestWeightsOnly ==
    /\ (pc \in {"score", "map", "done"}) => weights = slider
    /\ (pc = "done" /\ HasZones)
         => /\ \A c \in Sliders : gdf.cols[c] = [z \in ZoneIds |-> Raw(c, z)]
            /\ page.map = gdf.cols[ScoreCol]
            /\ IF SevenTotal(slider) = 0
               THEN /\ DOMAIN gdf.cols = Sliders \cup {ScoreCol}
                    /\ page = [msgs |-> {"warning"}, map |-> [z \in ZoneIds |-> Zero]]
               ELSE /\ DOMAIN gdf.cols = Sliders \cup NormCols \cup {ScoreCol}
                    /\ page = [msgs |-> {}, map |-> Scores(slider)]
                    /\ \A m \in UsedSet : gdf.cols[NormName[m]] = NormTable[m]

C6_Witness ==
    /\ pc = "done" /\ Len(file.zones) = 2 /\ ~Tied("food")
    /\ slider = WeightSet(100, 20, 0, 50)
    /\ page.map # <<Zero, Zero>>

C8_TiedMetric ==
    /\ (Computed /\ SevenTotal(weights) # 0)
         => /\ \A m \in UsedSet : Tied(m) => \A z \in ZoneIds : NormAt(m, z) = Zero
            /\ \A m \in UsedSet, z \in ZoneIds : NormAt(m, z).k = "num"
    /\ (Computed /\ HasZones /\ \A m \in UsedSet : Tied(m))
         => \A z \in ZoneIds : ScoreAt(z) = Zero

C8_Witness ==
    /\ Computed /\ Len(file.zones) = 3 /\ SevenTotal(weights) # 0
    /\ \A m \in UsedSet : Tied(m)
    /\ Raw("food", 1) = 8
    /\ gdf.cols[ScoreCol] = <<Zero, Zero, Zero>>

(***************************************************************************)
(* C9: for a metric with colMax # colMin and a nonzero weight total, a     *)
(* zone at the collection maximum is normalised to 1.0 and a zone at the   *)
(* collection minimum to 0.0.                                              *)
(***************************************************************************)
C9_Extremes ==
    (Computed /\ SevenTotal(weights) # 0)
        => \A m \in UsedSet : ~Tied(m) =>
             \A z \in ZoneIds :
                /\ Raw(m, z) = Greatest(m) => NormAt(m, z) = One
                /\ Raw(m, z) = Least(m) => NormAt(m, z) = Zero

C9_Witness ==
    /\ Computed /\ SevenTotal(weights) # 0 /\ Len(file.zones) = 3
    /\ Raw("food", 1) = 5 /\ Raw("food", 2) = 8 /\ Raw("food", 3) = 2
    /\ NormAt("food", 2) = One /\ NormAt("food", 3) = Zero

\* zone a has the highest normalised value of metric m, zone b a strictly
\* lower one, and the two are equal on every other normalised metric
Leads(m, a, b) ==
    /\ \A z \in ZoneIds : FLeq(NormAt(m, z), NormAt(m, a))
    /\ ~FLeq(NormAt(m, a), NormAt(m, b))
    /\ \A k \in UsedSet \ {m} : NormAt(k, a) = NormAt(k, b)

(***************************************************************************)
(* C10: weight monotonicity.  For a zone a with the highest normalised     *)
(* value of metric m and a zone b with a strictly lower one, equal on all  *)
(* other normalised metrics, raising weights[m] alone (total > 0 before    *)
(* and after) never lowers score[a] - score[b].                            *)
(***************************************************************************)
C10_WeightMonotone ==
    (pc = "done" /\ SevenTotal(weights) > 0)
        => \A m \in UsedSet :
             \A pairs \in {{ab \in ZoneIds \X ZoneIds : Leads(m, ab[1], ab[2])}} :
               pairs # {} =>
                 \A v \in {u \in {weights[m] + 1, 100} : u > weights[m] /\ u <= 100} :
                   \A raised \in {Scored(Frame(file), [weights EXCEPT ![m] = v]).cols[ScoreCol]} :
                     \A ab \in pairs :
                       ExactLeq(ExactAdd(ScoreAt(ab[1]), raised[ab[2]]),
                                ExactAdd(raised[ab[1]], ScoreAt(ab[2])))

C10_Witness ==
    /\ pc = "done" /\ SevenTotal(weights) > 0
    /\ weights["food"] = 10 /\ weights["transport"] = 20
    /\ \E a, b \in ZoneIds :
         /\ NormAt("food", a) = One /\ NormAt("food", b) = FDivInt(1, 2)
         /\ \A k \in UsedSet \ {"food"} : NormAt(k, a) = NormAt(k, b)
         /\ ~FLeq(ScoreAt(a), ScoreAt(b))

====
